---- MODULE Spec2Model ----
(***************************************************************************)
(* Model of the job tracker.  Spec is the extraction subsystem             *)
(* (src/scraper.py): the four per-employer extractors scrape_google,       *)
(* scrape_microsoft, scrape_zomato, scrape_swiggy and the orchestrator     *)
(* scrape_all.  SpecApi and SpecBlob run one extraction layer of an        *)
(* extractor on a mocked source.  SpecDb is the jobs table under calls of  *)
(* src/database.py.  SpecMain is a sequence of runs of main (src/main.py)  *)
(* on one jobs.db, with the keyword filter (src/filter.py) and the         *)
(* Telegram notifier (src/notifier.py); SpecMainLive adds that a started   *)
(* process keeps running.                                                  *)
(*                                                                         *)
(* Data representation.  A Python str is a sequence of text chunks, ""     *)
(* is <<>>; concatenation is \o, startswith looks at the first chunk and   *)
(* substring tests look chunks up in ChunkHas.  A JSON array used where a  *)
(* string is expected is the chunk sequence of its text (first chunk       *)
(* "[").  A Python dict is a function from keys to values (a record); a    *)
(* JSON value that is not a dict where the code expects one carries the    *)
(* key "_nondict"; a JSON list at the top of a document is the record      *)
(* [_list |-> items].                                                      *)
(***************************************************************************)
EXTENDS Integers, Sequences, FiniteSets, TLC

\* Total number of candidate entries (JSON list items, JSON-LD blocks,
\* script-blob matches, anchors) the sources deliver during one run.
MaxItems == 3
\* Number of <script> elements of one kind on a fetched page.
MaxScripts == 2
\* Number of rows the jobs table may hold before save_job is no longer
\* called.
MaxRows == 5
\* Number of runs of main, one a day, against the same jobs.db.
MaxRuns == 2
\* Number of records scrape_all returns to main in one run.
MaxScraped == 2
\* Number of matches of an extractor's pattern in one inline script.
MaxMatches == 31

VARIABLES
    pc,        \* position of the running code
    invoked,   \* extractors called by scrape_all so far, in call order
    returned,  \* the lists the extractors returned to scrape_all, in order
    all_jobs,  \* scrape_all's accumulator
    jobs,      \* the running extractor's `jobs` list
    result,    \* the list the running extractor returns
    resp,      \* the running extractor's last page response (its status)
    idx,       \* index of the API candidate the running extractor tries next
    trace,     \* retrieval attempts of the running extractor, in order
    items,     \* number of candidate entries delivered so far in this run
               \* (bounded by MaxItems)
    mock,      \* the source content handed to one extraction layer on its own
    emitted,   \* the records that layer produced from it
    db,        \* the rows of the jobs table of jobs.db, in insertion order
    call,      \* the last call made on database.py and what it returned
    mpc,       \* position of main()
    run,       \* number of the run of main (one process per run)
    creds,     \* BOT_TOKEN and CHAT_ID are both set in this run's environment
    relevant,  \* main's `relevant` list
    pos,       \* index in `relevant` of the job main's loop is at
    new_count, \* main's `new_count`
    alerts,    \* the calls of send_alert so far, over all runs, in order
    saves      \* the calls of save_job made by main so far, over all runs

scrapeVars == <<pc, invoked, returned, all_jobs, jobs, result, resp, idx, trace, items>>
layerVars  == <<mock, emitted>>
dbVars     == <<db, call>>
mainVars   == <<mpc, run, creds, relevant, pos, new_count, alerts, saves>>

vars == <<scrapeVars, layerVars, dbVars, mainVars>>

-----------------------------------------------------------------------------
(* Python values *)

EMPTY == <<>>

\* bool(v) of a str, list or dict
Truthy(v) == v /= <<>>

\* a or b
Or(a, b) == IF Truthy(a) THEN a ELSE b

\* d.get(k, default); d.get(k) is Get(d, k, EMPTY): its None is only ever
\* the left operand of `or` or of a truth test, where it acts as ""
Get(d, k, default) == IF k \in DOMAIN d THEN d[k] ELSE default

\* x is a dict: x.get(...) does not raise AttributeError
IsDict(x) == "_nondict" \notin DOMAIN x /\ "_list" \notin DOMAIN x

\* isinstance(x, list)
IsList(x) == "_list" \in DOMAIN x

NonDict == [_nondict |-> <<"junk">>]

\* hash(v) succeeds: v is a str, not a list
Hashable(v) == v = <<>> \/ v[1] /= "["

\* s.startswith("http")
StartsWithHttp(s) == s /= <<>> /\ s[1] \in {"https://", "http://"}

\* s.startswith("/")
StartsWithSlash(s) == s /= <<>> /\ s[1] = "/"

\* the chunks that contain a given substring (after lower())
ChunkHas ==
    { <<"www.zomato.com", "zomato">>, <<"zomato-jobs/3", "zomato">>,
      <<"zomato-jobs/3", "job">>,
      <<"careers.swiggy.com", "career">>,
      <<"careers.google.com", "career">>, <<"jobs.careers.microsoft.com", "career">>,
      <<"jobs.careers.microsoft.com", "job">>,
      <<"jobs/results/", "job">>, <<"global/en/job/", "job">>,
      <<"jobs/1", "job">>, <<"jobs/2", "job">>, <<"careers", "career">>,
      <<"roles/5", "role">>, <<"apply/7", "apply">>,
      <<"application/json", "application/json">>, <<"application/json", "json">>,
      <<"text/json", "json">>,
      <<"ML Engineer", "ml">>, <<"Data Scientist", "data">>,
      <<"Data Engineer", "data">>, <<"Data Engineer", "data engineer">>,
      <<"Data Analyst", "data">>, <<"Data Analyst", "data analyst">>,
      <<"SDE Intern", "sde">>, <<"Apply for SDE Intern", "sde">> }

\* sub in s.lower()
Contains(s, sub) == \E i \in 1..Len(s) : <<s[i], sub>> \in ChunkHas

RECURSIVE StrLen(_)
\* len(s)
StrLen(s) == IF s = <<>> THEN 0 ELSE Len(Head(s)) + StrLen(Tail(s))

-----------------------------------------------------------------------------
(* Sequence helpers *)

SeqsUpTo(S, n) == UNION { [1..k -> S] : k \in 0..n }

RECURSIVE Flatten(_)
Flatten(ss) == IF ss = <<>> THEN <<>> ELSE Head(ss) \o Flatten(Tail(ss))

\* s[:n]
Prefix(s, n) == SubSeq(s, 1, IF Len(s) < n THEN Len(s) ELSE n)

\* index of the first element on which processing raises, Len+1 if none;
\* raises[i] tells whether processing element i raises
FirstRaise(raises) ==
    IF \E i \in 1..Len(raises) : raises[i]
      THEN CHOOSE i \in 1..Len(raises) : raises[i] /\ \A k \in 1..(i-1) : ~raises[k]
      ELSE Len(raises) + 1

\* a JobRecord
Job(company, title, location, link) ==
    [company |-> company, title |-> title, location |-> location, link |-> link]

\* `if title and link`
Valid(j) == Truthy(j.title) /\ Truthy(j.link)

NumValid(js) == Cardinality({ i \in 1..Len(js) : Valid(js[i]) })

INDIA == <<"India">>

\* one retrieval attempt in the trace: the layer, the records it appended
\* to jobs, and whether they were taken from a response whose status is
\* not 200
Attempt(layer, status, recs) ==
    [layer |-> layer, recs |-> recs, non200 |-> (recs /= <<>> /\ status /= 200)]

-----------------------------------------------------------------------------
(* The sources: what a fetch can return *)

\* outcome of requests.get: a transport error (timeout, connection failure;
\* written as status 0) or a response with a status code
Statuses == {200, 500}
TransportError == 0

JsonContentTypes == { <<"application/json">>, <<"text/json">> }

\* links a source may carry
GoogleLink1 == <<"https://", "careers.google.com", "/", "jobs/results/", "101">>
ZomatoLink1 == <<"https://", "www.zomato.com", "/", "jobs/1">>
SwiggyLink1 == <<"https://", "careers.swiggy.com", "/", "jobs/1">>
OtherLink   == <<"https://", "x.com", "/", "jobs/2">>
RelLink     == <<"/", "jobs/1">>
RelNoSlash  == <<"jobs/2">>
ListLink    == <<"[", "https://", "careers.google.com", "/", "jobs/results/", "101", "]">>

\* JSON-LD items (schema.org blocks) a page may embed; the field `type`
\* stands for the key "@type"
LdItems ==
    { [type |-> <<"JobPosting">>, title |-> <<"ML Engineer">>, url |-> GoogleLink1,
       jobLocation |-> [address |-> [addressLocality |-> <<"Pune">>]]],
      [type |-> <<"JobPosting">>, title |-> <<"Data Engineer">>, url |-> ZomatoLink1],
      [type |-> <<"JobPosting">>, title |-> <<"SDE Intern">>, url |-> RelLink,
       jobLocation |-> [_list |-> << [address |-> [addressLocality |-> <<>>]] >>]],
      [type |-> <<"JobPosting">>, url |-> OtherLink],
      [type |-> <<"JobPosting">>, title |-> <<"ML Engineer">>, url |-> ListLink],
      [type |-> <<"Organization">>],
      NonDict }

\* the text of one <script type="application/ld+json">: not JSON, one
\* object, or a list of objects
BadJson == [_badjson |-> TRUE]

\* number of entries of one script: of an ld+json document or of an inline
\* script's matches
DocSize(doc) == IF "_badjson" \in DOMAIN doc THEN 0
                ELSE IF "pairs" \in DOMAIN doc THEN Len(doc.pairs)
                ELSE IF IsList(doc) THEN Len(doc._list) ELSE 1

LdDocs(n) ==
    {BadJson} \cup { [_list |-> s] : s \in SeqsUpTo(LdItems, n) }
              \cup (IF n >= 1 THEN LdItems ELSE {})

RECURSIVE SumSeq(_)
SumSeq(ns) == IF ns = <<>> THEN 0 ELSE Head(ns) + SumSeq(Tail(ns))

TotalSize(ds) == SumSeq([i \in 1..Len(ds) |-> DocSize(ds[i])])

RECURSIVE ScriptSeqs(_, _, _)
\* sequences of at most k scripts from D that hold at most n entries
ScriptSeqs(D, n, k) ==
    IF k = 0 THEN { <<>> }
    ELSE { <<>> } \cup
         UNION { { <<d>> \o r : r \in ScriptSeqs(D, n - DocSize(d), k - 1) }
                 : d \in { d \in D : DocSize(d) <= n } }

\* an inline <script>: the (title, id-or-link) pairs the extractor's
\* regular expression finds in its text, in order; both groups of a match
\* are non-empty by the pattern.  hasKey: the text passes the extractor's
\* substring test.  The ld+json scripts of a page are taken not to match.
BlobDocsOf(Pairs, n) ==
    { [hasKey |-> FALSE, pairs |-> <<>>] }
      \cup { [hasKey |-> TRUE, pairs |-> p] : p \in SeqsUpTo(Pairs, n) }

GooglePairs    == { <<<<"ML Engineer">>, <<"101">>>>, <<<<"Data Scientist">>, <<"102">>>> }
MicrosoftPairs == { <<<<"ML Engineer">>, <<"1">>>>, <<<<"Data Scientist">>, <<"2">>>> }
ZomatoPairs    == { <<<<"ML Engineer">>, ZomatoLink1>>, <<<<"Data Scientist">>, RelLink>>,
                    <<<<"SDE Intern">>, OtherLink>>, <<<<"Data Analyst">>, <<"zomato-jobs/3">>>> }
SwiggyPairs    == { <<<<"ML Engineer">>, SwiggyLink1>>, <<<<"Data Scientist">>, RelLink>> }

GoogleBlobDocs(n)    == BlobDocsOf(GooglePairs, n)
MicrosoftBlobDocs(n) == BlobDocsOf(MicrosoftPairs, n)
\* Zomato's pattern also matches "url" and "link" keys, which its substring
\* test (jobTitle, or title and applyUrl) does not ask for
ZomatoBlobDocs(n)    == BlobDocsOf(ZomatoPairs, n)
                          \cup { [hasKey |-> FALSE, pairs |-> p] : p \in SeqsUpTo(ZomatoPairs, n) }
SwiggyBlobDocs(n)    == BlobDocsOf(SwiggyPairs, n)

\* <a href=...> elements: href and get_text(strip=True)
Anchors ==
    { [href |-> RelLink,     text |-> <<"ML Engineer">>],
      [href |-> RelNoSlash,  text |-> <<"Data Scientist">>],
      [href |-> ZomatoLink1, text |-> <<"Data Engineer">>],
      [href |-> <<"/", "careers">>, text |-> <<"Careers">>],
      [href |-> <<"/", "about">>, text |-> <<"About our company">>],
      [href |-> <<"/", "roles/5">>, text |-> <<"Open roles at our company">>],
      [href |-> <<"/", "apply/7">>, text |-> <<"Apply for SDE Intern">>] }

\* entries of the job list of a JSON API response
MicrosoftEntries ==
    { [title |-> <<"ML Engineer">>, jobId |-> <<"1">>, location |-> <<"Pune">>],
      [title |-> <<"Data Scientist">>, id |-> <<"2">>, primaryLocation |-> <<"Hyderabad">>],
      [title |-> <<"ML Engineer">>, jobId |-> <<"1">>],
      [jobId |-> <<"3">>, location |-> <<"Pune">>],
      NonDict }

ZomatoEntries ==
    { [title |-> <<"ML Engineer">>, url |-> ZomatoLink1, location |-> <<"Pune">>],
      [name |-> <<"Data Scientist">>, link |-> RelLink],
      [title |-> <<"ML Engineer">>, apply_url |-> ZomatoLink1, city |-> <<>>],
      [title |-> <<"SDE Intern">>, location |-> <<"Pune">>],
      NonDict }

SwiggyEntries ==
    { [title |-> <<"ML Engineer">>, job_application_url |-> SwiggyLink1,
       location |-> <<"Pune">>],
      [name |-> <<"Data Scientist">>, link |-> RelLink],
      [title |-> <<"ML Engineer">>, url |-> SwiggyLink1, City |-> <<>>],
      [title |-> <<"SDE Intern">>, location |-> <<"Pune">>],
      NonDict }

\* the body of an API response as resp.json() sees it: not JSON, a list, or
\* a dict holding the list under one of the envelope keys
JsonDocs(Entries, n) ==
    {BadJson} \cup
    UNION { { [_list |-> l], [jobs |-> l], [value |-> l], [results |-> l],
              [operationResult |-> [result |-> [jobs |-> l]]] }
            : l \in SeqsUpTo(Entries, n) }

\* the entries a body holds
JsonSize(d) ==
    IF "_badjson" \in DOMAIN d THEN 0
    ELSE IF "operationResult" \in DOMAIN d THEN Len(d.operationResult.result.jobs)
    ELSE Len(d[CHOOSE k \in DOMAIN d : TRUE])

\* outcome of one requests.get of an API url: a transport error, an error
\* page, an HTML page, or a JSON document
ApiResponses(Entries, n) ==
    { [status |-> TransportError, ctype |-> <<>>, body |-> BadJson],
      [status |-> 500, ctype |-> <<"text/html">>, body |-> BadJson],
      [status |-> 200, ctype |-> <<"text/html">>, body |-> BadJson] } \cup
    { [status |-> 200, ctype |-> ct, body |-> b]
        : ct \in JsonContentTypes, b \in JsonDocs(Entries, n) }

\* no page fetched, or the fetch raised
NoResp == [status |-> TransportError]

\* The parts of a fetched page are drawn when the code reads them: the
\* status with the GET, each find_all result when its layer runs.
\* What soup.find_all("script", type="application/ld+json") can return when
\* n more entries may be delivered
LdParts(n) == ScriptSeqs(LdDocs(n), n, MaxScripts)

\* what soup.find_all("script") can return, as far as the extractor's
\* pattern sees it
BlobParts(BlobDocs, n) == ScriptSeqs(BlobDocs, n, MaxScripts)

\* what soup.find_all("a", href=True) can return
AnchorParts(n) == SeqsUpTo(Anchors, n)

-----------------------------------------------------------------------------
(* Layers shared by the extractors *)

\* processing a JSON-LD item raises inside the per-script try (Google):
\* item.get on a non-dict, loc.get on a non-dict jobLocation
GoogleLdLoc(item) ==
    LET loc0 == Or(Get(item, "jobLocation", EMPTY), <<>>)
    IN  IF IsList(loc0) THEN (IF Truthy(loc0._list) THEN loc0._list[1] ELSE <<>>)
        ELSE loc0

GoogleLdRaises(item) ==
    \/ ~IsDict(item)
    \/ /\ Get(item, "type", EMPTY) = <<"JobPosting">>
       /\ \/ ~IsDict(GoogleLdLoc(item))
          \/ ~IsDict(Get(GoogleLdLoc(item), "address", <<>>))

GoogleLdRecord(item) ==
    Job(<<"Google">>, Get(item, "title", EMPTY),
        Get(Get(GoogleLdLoc(item), "address", <<>>), "addressLocality", INDIA),
        Get(item, "url", EMPTY))

\* lines 56-68: the records one ld+json script adds
GoogleLdScript(doc) ==
    IF "_badjson" \in DOMAIN doc THEN <<>>
    ELSE LET its  == IF IsList(doc) THEN doc._list ELSE <<doc>>
             upto == FirstRaise([i \in 1..Len(its) |-> GoogleLdRaises(its[i])]) - 1
             keep(i) == /\ Get(i, "type", EMPTY) = <<"JobPosting">>
                        /\ Valid(GoogleLdRecord(i))
             kept == SelectSeq(SubSeq(its, 1, upto), keep)
         IN  [i \in 1..Len(kept) |-> GoogleLdRecord(kept[i])]

\* lines 54-70
GoogleJsonLdRecords(ld) == Flatten([i \in 1..Len(ld) |-> GoogleLdScript(ld[i])])

\* the records of one script when every match is taken
GoogleBlobScriptUncapped(s) ==
    IF ~s.hasKey THEN <<>>
    ELSE [i \in 1..Len(s.pairs) |->
            Job(<<"Google">>, s.pairs[i][1], INDIA,
                <<"https://", "careers.google.com", "/", "jobs/results/">> \o s.pairs[i][2])]
\* lines 74-88: the first script whose pairs give records ends the scan
GoogleBlobScript(s) ==
    IF ~s.hasKey THEN <<>>
    ELSE LET ps == Prefix(s.pairs, 30)
         IN  [i \in 1..Len(ps) |->
                Job(<<"Google">>, ps[i][1], INDIA,
                    <<"https://", "careers.google.com", "/", "jobs/results/">> \o ps[i][2])]

\* `if jobs: break` in a script scan that starts with jobs empty: the
\* records of the first script that yields any; recs[i] are script i's
FirstNonEmpty(recs) ==
    IF \E i \in 1..Len(recs) : recs[i] /= <<>>
      THEN recs[CHOOSE i \in 1..Len(recs) :
                  recs[i] /= <<>> /\ \A k \in 1..(i-1) : recs[k] = <<>>]
      ELSE <<>>

GoogleBlobRecords(scripts) ==
    FirstNonEmpty([i \in 1..Len(scripts) |-> GoogleBlobScript(scripts[i])])

RECURSIVE DedupFrom(_, _)
DedupFrom(js, seen) ==
    IF js = <<>> THEN <<>>
    ELSE IF Head(js).link \in seen THEN DedupFrom(Tail(js), seen)
         ELSE <<Head(js)>> \o DedupFrom(Tail(js), seen \cup {Head(js).link})

\* lines 94-98
Dedup(js) == DedupFrom(js, {})

\* `j["link"] not in seen` raises TypeError on an unhashable link
DedupRaises(js) == \E i \in 1..Len(js) : ~Hashable(js[i].link)

-----------------------------------------------------------------------------
(* scrape_google *)

\* lines 49-70 and the `if not jobs` of line 73.  The parts of the page
\* are drawn when the code reads them.
GoogleJsonLd ==
    /\ pc = "g_jsonld"
    /\ \/ /\ jobs' = <<>>
          /\ resp' = NoResp
          /\ trace' = Append(trace, Attempt("jsonld", TransportError, <<>>))
          /\ pc' = "g_dedup"
          /\ UNCHANGED items
       \/ \E st \in Statuses, ld \in LdParts(MaxItems - items) :
            LET recs == GoogleJsonLdRecords(ld)
            IN  /\ jobs' = recs
                /\ resp' = [status |-> st]
                /\ trace' = Append(trace, Attempt("jsonld", st, recs))
                /\ pc' = IF recs = <<>> THEN "g_blob" ELSE "g_dedup"
                /\ items' = items + TotalSize(ld)
    /\ UNCHANGED <<invoked, returned, all_jobs, result, idx,
                 layerVars, dbVars, mainVars>>

\* lines 73-88
GoogleBlob ==
    /\ pc = "g_blob"
    /\ \E scripts \in BlobParts(GoogleBlobDocs(MaxItems - items), MaxItems - items) :
         LET recs == GoogleBlobRecords(scripts)
         IN  /\ jobs' = jobs \o recs
             /\ trace' = Append(trace, Attempt("blob", resp.status, recs))
             /\ items' = items + TotalSize(scripts)
    /\ pc' = "g_dedup"
    /\ UNCHANGED <<invoked, returned, all_jobs, result, resp, idx,
                 layerVars, dbVars, mainVars>>

\* lines 93-101
GoogleDedup ==
    /\ pc = "g_dedup"
    /\ IF DedupRaises(jobs)
         THEN pc' = "raised" /\ UNCHANGED result
         ELSE pc' = "ret" /\ result' = Dedup(jobs)
    /\ UNCHANGED <<invoked, returned, all_jobs, jobs, resp, idx, trace, items,
                 layerVars, dbVars, mainVars>>

-----------------------------------------------------------------------------
(* The JSON API loop shared in shape by Microsoft, Zomato and Swiggy *)

\* job.get raises AttributeError on an entry that is not a dict
EntryRaises(job) == ~IsDict(job)

\* `for job in job_list: ... if title and link: jobs.append(...)`: the
\* records appended before the loop ends or raises
\* recs[i] is the record built from job_list[i]
ApiLoop(job_list, recs) ==
    LET upto == FirstRaise([i \in 1..Len(job_list) |-> EntryRaises(job_list[i])]) - 1
    IN  SelectSeq(SubSeq(recs, 1, upto), Valid)

ApiLoopRaises(job_list) == \E i \in 1..Len(job_list) : EntryRaises(job_list[i])

\* records of the inline scripts of a page for the JobPosting layer of
\* Zomato and Swiggy (lines 253-266, 362-375): no `if title and link`
LdScriptPlain(company, doc) ==
    IF "_badjson" \in DOMAIN doc THEN <<>>
    ELSE LET its  == IF IsList(doc) THEN doc._list ELSE <<doc>>
             upto == FirstRaise([i \in 1..Len(its) |-> EntryRaises(its[i])]) - 1
             isPosting(i) == Get(i, "type", EMPTY) = <<"JobPosting">>
             kept == SelectSeq(SubSeq(its, 1, upto), isPosting)
         IN  [i \in 1..Len(kept) |->
                Job(company, Get(kept[i], "title", EMPTY), INDIA, Get(kept[i], "url", EMPTY))]

JsonLdPlainRecords(company, ld) ==
    Flatten([i \in 1..Len(ld) |-> LdScriptPlain(company, ld[i])])

RECURSIVE AnchorScan(_, _, _, _, _)
\* lines 288-297, 394-403: the anchor loop with its seen_links set
AnchorScan(company, base, kws, anchors, seen) ==
    IF anchors = <<>> THEN <<>>
    ELSE LET a == Head(anchors)
             take == /\ StrLen(a.text) > 8
                     /\ a.href \notin seen
                     /\ \E kw \in kws : Contains(a.href, kw)
             full == IF StartsWithHttp(a.href) THEN a.href ELSE base \o a.href
         IN  IF take
               THEN <<Job(company, a.text, INDIA, full)>>
                      \o AnchorScan(company, base, kws, Tail(anchors), seen \cup {a.href})
               ELSE AnchorScan(company, base, kws, Tail(anchors), seen)

-----------------------------------------------------------------------------
(* scrape_microsoft *)

MicrosoftApiUrls == << "jobs.careers.microsoft.com/global/en/search",
                       "gcsservices.careers.microsoft.com/search/api/v1/search" >>

MicrosoftJobBase == <<"https://", "jobs.careers.microsoft.com", "/", "global/en/job/">>

\* lines 150-155; data is a dict
MicrosoftJobList(data) ==
    Or(Get(Get(Get(data, "operationResult", <<>>), "result", <<>>), "jobs", EMPTY),
       Or(Get(data, "jobs", EMPTY), Or(Get(data, "value", EMPTY), <<>>)))

\* lines 158-164
MicrosoftRecord(job) ==
    LET job_id == Or(Get(job, "jobId", EMPTY), Get(job, "id", EMPTY))
    IN  Job(<<"Microsoft">>, Get(job, "title", EMPTY),
            Or(Get(job, "location", EMPTY), Get(job, "primaryLocation", EMPTY)),
            IF Truthy(job_id) THEN MicrosoftJobBase \o job_id ELSE EMPTY)

\* lines 137-170: what one pass of the endpoint loop does with response r:
\* the records it appends, whether it got to line 165 (`if jobs: break`),
\* whether it raised into the `except` of line 168
MicrosoftApiTry(r) ==
    LET parsed == r.status = 200 /\ "_badjson" \notin DOMAIN r.body
        isDict == parsed /\ IsDict(r.body)
        job_list == IF isDict THEN MicrosoftJobList(r.body) ELSE <<>>
        recs == ApiLoop(job_list, [i \in 1..Len(job_list) |-> MicrosoftRecord(job_list[i])])
        raised == r.status = TransportError \/ (parsed /\ ~isDict)
                    \/ ApiLoopRaises(job_list)
    IN  [recs |-> recs, atBreak |-> r.status = 200 /\ isDict /\ ~raised]

\* lines 135-170: one iteration of the endpoint loop, and the `if not jobs`
\* of line 173 when the loop ends
MicrosoftApi ==
    /\ pc = "m_api"
    /\ \E r \in ApiResponses(MicrosoftEntries, MaxItems - items) :
         LET recs == MicrosoftApiTry(r).recs
             break == MicrosoftApiTry(r).atBreak /\ jobs \o recs /= <<>>
             last == break \/ idx = Len(MicrosoftApiUrls)
         IN  /\ jobs' = jobs \o recs
             /\ trace' = Append(trace, Attempt("api", r.status, recs))
             /\ idx' = idx + 1
             /\ pc' = IF ~last THEN "m_api"
                      ELSE IF jobs' = <<>> THEN "m_html" ELSE "m_end"
             /\ items' = items + JsonSize(r.body)
    /\ UNCHANGED <<invoked, returned, all_jobs, result, resp,
                 layerVars, dbVars, mainVars>>

\* lines 184-191: the first script whose matches give records ends the scan
MicrosoftBlobScript(s) ==
    IF ~s.hasKey THEN <<>>
    ELSE LET ps == Prefix(s.pairs, 20)
         IN  [i \in 1..Len(ps) |->
                Job(<<"Microsoft">>, ps[i][1], INDIA, MicrosoftJobBase \o ps[i][2])]

\* lines 173-195
MicrosoftHtml ==
    /\ pc = "m_html"
    /\ \/ /\ resp' = NoResp
          /\ trace' = Append(trace, Attempt("blob", TransportError, <<>>))
          /\ UNCHANGED <<jobs, items>>
       \/ \E st \in Statuses,
             scripts \in BlobParts(MicrosoftBlobDocs(MaxItems - items), MaxItems - items) :
            LET recs == FirstNonEmpty([i \in 1..Len(scripts) |-> MicrosoftBlobScript(scripts[i])])
            IN  /\ jobs' = jobs \o recs
                /\ resp' = [status |-> st]
                /\ trace' = Append(trace, Attempt("blob", st, recs))
                /\ items' = items + TotalSize(scripts)
    /\ pc' = "m_end"
    /\ UNCHANGED <<invoked, returned, all_jobs, result, idx,
                 layerVars, dbVars, mainVars>>

\* lines 197-198
MicrosoftReturn ==
    /\ pc = "m_end"
    /\ result' = jobs
    /\ pc' = "ret"
    /\ UNCHANGED <<invoked, returned, all_jobs, jobs, resp, idx, trace, items,
                 layerVars, dbVars, mainVars>>

-----------------------------------------------------------------------------
(* scrape_zomato *)

ZomatoApiCandidates == << "www.zomato.com/careers/api/jobs",
                          "www.zomato.com/api/v1/careers/jobs",
                          "api.zomato.com/careers/jobs" >>

ZomatoBase == <<"https://", "www.zomato.com">>

ZomatoKeywords == {"career", "job", "opening", "role"}

\* line 228; data is a dict
ZomatoJobList(data) ==
    Or(Get(data, "jobs", EMPTY), Or(Get(data, "results", EMPTY),
                                    Or(Get(data, "data", EMPTY), <<>>)))

\* lines 230-235
ZomatoRecord(job) ==
    Job(<<"Zomato">>,
        Or(Get(job, "title", EMPTY), Get(job, "name", EMPTY)),
        Or(Get(job, "location", EMPTY), Get(job, "city", INDIA)),
        Or(Get(job, "url", EMPTY), Or(Get(job, "apply_url", EMPTY), Get(job, "link", EMPTY))))

\* lines 224-240: what one pass of the candidate loop does with response
\* r: the records it appends, whether it got to line 237 (`if jobs: break`)
ZomatoApiTry(r) ==
    LET entered == r.status = 200 /\ Contains(r.ctype, "application/json")
        parsed == entered /\ "_badjson" \notin DOMAIN r.body
        isDict == parsed /\ IsDict(r.body)
        job_list == IF isDict THEN ZomatoJobList(r.body) ELSE <<>>
        recs == ApiLoop(job_list, [i \in 1..Len(job_list) |-> ZomatoRecord(job_list[i])])
        raised == r.status = TransportError \/ (entered /\ ~isDict)
                    \/ ApiLoopRaises(job_list)
    IN  [recs |-> recs, atBreak |-> entered /\ ~raised]

\* lines 223-240: one iteration of the candidate loop, and the `if not jobs`
\* of line 243 when the loop ends
ZomatoApi ==
    /\ pc = "z_api"
    /\ \E r \in ApiResponses(ZomatoEntries, MaxItems - items) :
         LET recs == ZomatoApiTry(r).recs
             break == ZomatoApiTry(r).atBreak /\ jobs \o recs /= <<>>
             last == break \/ idx = Len(ZomatoApiCandidates)
         IN  /\ jobs' = jobs \o recs
             /\ trace' = Append(trace, Attempt("api", r.status, recs))
             /\ idx' = idx + 1
             /\ pc' = IF ~last THEN "z_api"
                      ELSE IF jobs' = <<>> THEN "z_jsonld" ELSE "z_end"
             /\ items' = items + JsonSize(r.body)
    /\ UNCHANGED <<invoked, returned, all_jobs, result, resp,
                 layerVars, dbVars, mainVars>>

\* lines 244-266, and the `if not jobs` of lines 269 and 287
ZomatoJsonLd ==
    /\ pc = "z_jsonld"
    /\ \/ /\ resp' = NoResp
          /\ trace' = Append(trace, Attempt("jsonld", TransportError, <<>>))
          /\ pc' = "z_end"
          /\ UNCHANGED <<jobs, items>>
       \/ \E st \in Statuses, ld \in LdParts(MaxItems - items) :
            LET recs == JsonLdPlainRecords(<<"Zomato">>, ld)
            IN  /\ jobs' = jobs \o recs
                /\ resp' = [status |-> st]
                /\ trace' = Append(trace, Attempt("jsonld", st, recs))
                /\ pc' = IF jobs' = <<>> THEN "z_blob" ELSE "z_end"
                /\ items' = items + TotalSize(ld)
    /\ UNCHANGED <<invoked, returned, all_jobs, result, idx,
                 layerVars, dbVars, mainVars>>

\* lines 271-282
ZomatoBlobScript(s) ==
    IF ~s.hasKey THEN <<>>
    ELSE LET ps == Prefix(s.pairs, 20)
             keep(p) == Contains(p[2], "zomato") \/ StartsWithSlash(p[2])
             kept == SelectSeq(ps, keep)
         IN  [i \in 1..Len(kept) |->
                Job(<<"Zomato">>, kept[i][1], INDIA,
                    IF StartsWithHttp(kept[i][2]) THEN kept[i][2]
                    ELSE ZomatoBase \o kept[i][2])]

\* lines 269-284, and the `if not jobs` of line 287
ZomatoBlob ==
    /\ pc = "z_blob"
    /\ \E scripts \in BlobParts(ZomatoBlobDocs(MaxItems - items), MaxItems - items) :
         LET recs == FirstNonEmpty([i \in 1..Len(scripts) |-> ZomatoBlobScript(scripts[i])])
         IN  /\ jobs' = jobs \o recs
             /\ trace' = Append(trace, Attempt("blob", resp.status, recs))
             /\ pc' = IF jobs' = <<>> THEN "z_anchor" ELSE "z_end"
             /\ items' = items + TotalSize(scripts)
    /\ UNCHANGED <<invoked, returned, all_jobs, result, resp, idx,
                 layerVars, dbVars, mainVars>>

\* lines 287-297
ZomatoAnchor ==
    /\ pc = "z_anchor"
    /\ \E anchors \in AnchorParts(MaxItems - items) :
         LET recs == AnchorScan(<<"Zomato">>, ZomatoBase, ZomatoKeywords, anchors, {})
         IN  /\ jobs' = jobs \o recs
             /\ trace' = Append(trace, Attempt("anchor", resp.status, recs))
             /\ items' = items + Len(anchors)
    /\ pc' = "z_end"
    /\ UNCHANGED <<invoked, returned, all_jobs, result, resp, idx,
                 layerVars, dbVars, mainVars>>

\* lines 302-303
ZomatoReturn ==
    /\ pc = "z_end"
    /\ result' = jobs
    /\ pc' = "ret"
    /\ UNCHANGED <<invoked, returned, all_jobs, jobs, resp, idx, trace, items,
                 layerVars, dbVars, mainVars>>

-----------------------------------------------------------------------------
(* scrape_swiggy *)

SwiggyApiCandidates == << "careers.swiggy.com/api/jobs",
                          "careers.swiggy.com/jobs.json",
                          "www.swiggy.com/careers/api/jobs" >>

SwiggyBase == <<"https://", "careers.swiggy.com">>

SwiggyKeywords == {"job", "career", "opening", "apply"}

\* lines 335-337
SwiggyJobList(data) ==
    IF IsList(data) THEN data._list
    ELSE Or(Get(data, "jobs", EMPTY), Or(Get(data, "results", EMPTY),
                                         Or(Get(data, "data", EMPTY), <<>>)))

\* lines 339-344
SwiggyRecord(job) ==
    Job(<<"Swiggy">>,
        Or(Get(job, "title", EMPTY), Get(job, "name", EMPTY)),
        Or(Get(job, "location", EMPTY), Get(job, "City", INDIA)),
        Or(Get(job, "job_application_url", EMPTY),
           Or(Get(job, "url", EMPTY), Get(job, "link", EMPTY))))

\* lines 331-349: what one pass of the candidate loop does with response
\* r: the records it appends, whether it got to line 346 (`if jobs: break`)
SwiggyApiTry(r) ==
    LET entered == r.status = 200 /\ Contains(r.ctype, "json")
        parsed == entered /\ "_badjson" \notin DOMAIN r.body
        job_list == IF parsed THEN SwiggyJobList(r.body) ELSE <<>>
        recs == ApiLoop(job_list, [i \in 1..Len(job_list) |-> SwiggyRecord(job_list[i])])
        raised == r.status = TransportError \/ (entered /\ ~parsed)
                    \/ ApiLoopRaises(job_list)
    IN  [recs |-> recs, atBreak |-> entered /\ ~raised]

\* lines 330-349: one iteration of the candidate loop, and the `if not jobs`
\* of line 352 when the loop ends
SwiggyApi ==
    /\ pc = "s_api"
    /\ \E r \in ApiResponses(SwiggyEntries, MaxItems - items) :
         LET recs == SwiggyApiTry(r).recs
             break == SwiggyApiTry(r).atBreak /\ jobs \o recs /= <<>>
             last == break \/ idx = Len(SwiggyApiCandidates)
         IN  /\ jobs' = jobs \o recs
             /\ trace' = Append(trace, Attempt("api", r.status, recs))
             /\ idx' = idx + 1
             /\ pc' = IF ~last THEN "s_api"
                      ELSE IF jobs' = <<>> THEN "s_jsonld" ELSE "s_end"
             /\ items' = items + JsonSize(r.body)
    /\ UNCHANGED <<invoked, returned, all_jobs, result, resp,
                 layerVars, dbVars, mainVars>>

\* lines 353-375, and the `if not jobs` of lines 378 and 393
SwiggyJsonLd ==
    /\ pc = "s_jsonld"
    /\ \/ /\ resp' = NoResp
          /\ trace' = Append(trace, Attempt("jsonld", TransportError, <<>>))
          /\ pc' = "s_end"
          /\ UNCHANGED <<jobs, items>>
       \/ \E st \in Statuses, ld \in LdParts(MaxItems - items) :
            LET recs == JsonLdPlainRecords(<<"Swiggy">>, ld)
            IN  /\ jobs' = jobs \o recs
                /\ resp' = [status |-> st]
                /\ trace' = Append(trace, Attempt("jsonld", st, recs))
                /\ pc' = IF jobs' = <<>> THEN "s_blob" ELSE "s_end"
                /\ items' = items + TotalSize(ld)
    /\ UNCHANGED <<invoked, returned, all_jobs, result, idx,
                 layerVars, dbVars, mainVars>>

\* lines 380-388
SwiggyBlobScript(s) ==
    IF ~s.hasKey THEN <<>>
    ELSE LET ps == Prefix(s.pairs, 20)
         IN  [i \in 1..Len(ps) |-> Job(<<"Swiggy">>, ps[i][1], INDIA, ps[i][2])]

\* lines 378-390, and the `if not jobs` of line 393
SwiggyBlob ==
    /\ pc = "s_blob"
    /\ \E scripts \in BlobParts(SwiggyBlobDocs(MaxItems - items), MaxItems - items) :
         LET recs == FirstNonEmpty([i \in 1..Len(scripts) |-> SwiggyBlobScript(scripts[i])])
         IN  /\ jobs' = jobs \o recs
             /\ trace' = Append(trace, Attempt("blob", resp.status, recs))
             /\ pc' = IF jobs' = <<>> THEN "s_anchor" ELSE "s_end"
             /\ items' = items + TotalSize(scripts)
    /\ UNCHANGED <<invoked, returned, all_jobs, result, resp, idx,
                 layerVars, dbVars, mainVars>>

\* lines 393-403
SwiggyAnchor ==
    /\ pc = "s_anchor"
    /\ \E anchors \in AnchorParts(MaxItems - items) :
         LET recs == AnchorScan(<<"Swiggy">>, SwiggyBase, SwiggyKeywords, anchors, {})
         IN  /\ jobs' = jobs \o recs
             /\ trace' = Append(trace, Attempt("anchor", resp.status, recs))
             /\ items' = items + Len(anchors)
    /\ pc' = "s_end"
    /\ UNCHANGED <<invoked, returned, all_jobs, result, resp, idx,
                 layerVars, dbVars, mainVars>>

\* lines 408-409
SwiggyReturn ==
    /\ pc = "s_end"
    /\ result' = jobs
    /\ pc' = "ret"
    /\ UNCHANGED <<invoked, returned, all_jobs, jobs, resp, idx, trace, items,
                 layerVars, dbVars, mainVars>>

-----------------------------------------------------------------------------
(* scrape_all *)

Extractors == << "Google", "Microsoft", "Zomato", "Swiggy" >>

Entry(e) == CASE e = "Google" -> "g_jsonld"
              [] e = "Microsoft" -> "m_api"
              [] e = "Zomato" -> "z_api"
              [] e = "Swiggy" -> "s_api"

\* lines 419-422: the call of the next extractor
ScrapeAllCall ==
    /\ pc = "scrape_all"
    /\ Len(invoked) < Len(Extractors)
    /\ invoked' = Append(invoked, Extractors[Len(invoked) + 1])
    /\ pc' = Entry(Extractors[Len(invoked) + 1])
    /\ UNCHANGED <<returned, all_jobs, jobs, result, resp, idx, trace, items,
                 layerVars, dbVars, mainVars>>

\* lines 419-422: all_jobs.extend(<returned list>)
ScrapeAllExtend ==
    /\ pc = "ret"
    /\ all_jobs' = all_jobs \o result
    /\ returned' = Append(returned, result)
    /\ pc' = "scrape_all"
    /\ jobs' = <<>>
    /\ result' = <<>>
    /\ resp' = NoResp
    /\ idx' = 1
    /\ trace' = <<>>
    /\ UNCHANGED <<invoked, items,
                 layerVars, dbVars, mainVars>>

\* lines 423-424
ScrapeAllReturn ==
    /\ pc = "scrape_all"
    /\ Len(invoked) = Len(Extractors)
    /\ pc' = "done"
    /\ UNCHANGED <<invoked, returned, all_jobs, jobs, result, resp, idx, trace, items,
                 layerVars, dbVars, mainVars>>

\* the parts of the system a run of scrape_all alone does not touch
LayerIdle == mock = [layer |-> "none"] /\ emitted = <<>>

DbIdle == db = <<>> /\ call = [op |-> "none"]

MainIdle ==
    /\ mpc = "idle"
    /\ run = 0
    /\ creds = FALSE
    /\ relevant = <<>>
    /\ pos = 1
    /\ new_count = 0
    /\ alerts = <<>>
    /\ saves = <<>>

Init ==
    /\ pc = "scrape_all"
    /\ invoked = <<>>
    /\ returned = <<>>
    /\ all_jobs = <<>>
    /\ jobs = <<>>
    /\ result = <<>>
    /\ resp = NoResp
    /\ idx = 1
    /\ trace = <<>>
    /\ items = 0
    /\ LayerIdle
    /\ DbIdle
    /\ MainIdle

Next ==
    \/ ScrapeAllCall
    \/ ScrapeAllExtend
    \/ ScrapeAllReturn
    \/ GoogleJsonLd
    \/ GoogleBlob
    \/ GoogleDedup
    \/ MicrosoftApi
    \/ MicrosoftHtml
    \/ MicrosoftReturn
    \/ ZomatoApi
    \/ ZomatoJsonLd
    \/ ZomatoBlob
    \/ ZomatoAnchor
    \/ ZomatoReturn
    \/ SwiggyApi
    \/ SwiggyJsonLd
    \/ SwiggyBlob
    \/ SwiggyAnchor
    \/ SwiggyReturn

Spec == Init /\ [][Next]_vars

-----------------------------------------------------------------------------
(* One extraction layer on its own, fed a mocked source *)

\* scrape_all is not running
ScrapeIdle ==
    /\ pc = "idle"
    /\ invoked = <<>>
    /\ returned = <<>>
    /\ all_jobs = <<>>
    /\ jobs = <<>>
    /\ result = <<>>
    /\ resp = NoResp
    /\ idx = 1
    /\ trace = <<>>
    /\ items = 0

\* the entry of spec.md's end-to-end scenario A
ScenarioALink == <<"https://", "x", "/", "jobs/1">>

ScenarioAEntry ==
    [title |-> <<"Data Engineer">>, location |-> [name |-> <<"Bengaluru">>],
     absolute_url |-> ScenarioALink]

ScenarioABody == [jobs |-> <<ScenarioAEntry>>]

ApiExtractors == {"Microsoft", "Zomato", "Swiggy"}

EntriesOf(e) == CASE e = "Microsoft" -> MicrosoftEntries
                  [] e = "Zomato" -> ZomatoEntries
                  [] e = "Swiggy" -> SwiggyEntries

\* what a JSON API mock may answer to the extractor's GET
ApiMocks(e) == ApiResponses(EntriesOf(e) \cup {ScenarioAEntry}, MaxItems)

\* the records the extractor's API loop appends to its empty `jobs` on
\* response r
ApiTry(e, r) == CASE e = "Microsoft" -> MicrosoftApiTry(r).recs
                  [] e = "Zomato" -> ZomatoApiTry(r).recs
                  [] e = "Swiggy" -> SwiggyApiTry(r).recs

\* the API layer of mock.extractor runs on the mocked response
ApiLayer ==
    /\ mock.layer = "api"
    /\ ~mock.done
    /\ emitted' = ApiTry(mock.extractor, mock.input)
    /\ mock' = [mock EXCEPT !.done = TRUE]
    /\ UNCHANGED <<scrapeVars, dbVars, mainVars>>

InitApi ==
    /\ ScrapeIdle
    /\ DbIdle
    /\ MainIdle
    /\ emitted = <<>>
    /\ \E e \in ApiExtractors : \E r \in ApiMocks(e) :
         mock = [layer |-> "api", extractor |-> e, input |-> r, done |-> FALSE]

NextApi == ApiLayer

SpecApi == InitApi /\ [][NextApi]_vars

-----------------------------------------------------------------------------
(* The script-blob layer on its own, fed pages with many matches *)

\* numbers of matches in one script: none, one, and around the slices
\* [:20] and [:30]
BlobLengths == {0, 1, 20, 30, MaxMatches}

\* n matches that show p and q in turn
Alternate(p, q, n) == [i \in 1..n |-> IF i % 2 = 1 THEN p ELSE q]

\* inline scripts with up to MaxMatches matches; a script that fails the
\* extractor's substring test may hold matches all the same
LongBlobDocs(Pairs) ==
    { [hasKey |-> FALSE, pairs |-> <<>>] }
      \cup { [hasKey |-> FALSE, pairs |-> Alternate(p, p, MaxMatches)] : p \in Pairs }
      \cup { [hasKey |-> TRUE, pairs |-> Alternate(p, q, n)]
               : p \in Pairs, q \in Pairs, n \in BlobLengths }

PairsOf(e) == CASE e = "Google" -> GooglePairs
                [] e = "Microsoft" -> MicrosoftPairs
                [] e = "Zomato" -> ZomatoPairs
                [] e = "Swiggy" -> SwiggyPairs

\* what soup.find_all("script") may return on such a page
BlobMocks(e) == SeqsUpTo(LongBlobDocs(PairsOf(e)), MaxScripts)

\* the records the extractor's script scan appends to its empty `jobs`
BlobTry(e, scripts) ==
    CASE e = "Google" -> GoogleBlobRecords(scripts)
      [] e = "Microsoft" ->
           FirstNonEmpty([i \in 1..Len(scripts) |-> MicrosoftBlobScript(scripts[i])])
      [] e = "Zomato" ->
           FirstNonEmpty([i \in 1..Len(scripts) |-> ZomatoBlobScript(scripts[i])])
      [] e = "Swiggy" ->
           FirstNonEmpty([i \in 1..Len(scripts) |-> SwiggyBlobScript(scripts[i])])

\* the script-blob layer of mock.extractor runs on the mocked page
BlobLayer ==
    /\ mock.layer = "blob"
    /\ ~mock.done
    /\ emitted' = BlobTry(mock.extractor, mock.input)
    /\ mock' = [mock EXCEPT !.done = TRUE]
    /\ UNCHANGED <<scrapeVars, dbVars, mainVars>>

InitBlob ==
    /\ ScrapeIdle
    /\ DbIdle
    /\ MainIdle
    /\ emitted = <<>>
    /\ \E e \in {"Google", "Microsoft", "Zomato", "Swiggy"} : \E scripts \in BlobMocks(e) :
         mock = [layer |-> "blob", extractor |-> e, input |-> scripts, done |-> FALSE]

NextBlob == BlobLayer

SpecBlob == InitBlob /\ [][NextBlob]_vars

-----------------------------------------------------------------------------
(* database.py *)

\* records scrape_all can return: an API record, a second record with the
\* same link and another title, an anchor that is no job, a JobPosting
\* block without url (Zomato's JSON-LD layer), a third job
MsJobLink == MicrosoftJobBase \o <<"1">>

ScrapedJobs ==
    { Job(<<"Microsoft">>, <<"ML Engineer">>, <<"Pune">>, MsJobLink),
      Job(<<"Microsoft">>, <<"Data Engineer">>, <<>>, MsJobLink),
      Job(<<"Zomato">>, <<"About our company">>, INDIA, ZomatoBase \o <<"/", "about">>),
      Job(<<"Zomato">>, <<"Data Scientist">>, INDIA, <<>>),
      Job(<<"Swiggy">>, <<"SDE Intern">>, <<"Pune">>, SwiggyLink1) }

\* datetime.now(), to the day
Days == 1..MaxRuns

\* lines 43-51: the row of one INSERT; id is AUTOINCREMENT and no row is
\* ever deleted
Row(rows, job, now) ==
    [id |-> Len(rows) + 1, company |-> job.company, title |-> job.title,
     location |-> job.location, link |-> job.link, date_scraped |-> now]

Links(rows) == { rows[i].link : i \in 1..Len(rows) }

\* lines 17-24, 45-51: the exception the INSERT raises, "none" if it
\* inserts: `link TEXT UNIQUE` fails on a stored link.  company and title
\* are str arguments, never NULL, so NOT NULL cannot fail.
InsertError(rows, job) ==
    IF job.link \in Links(rows) THEN "IntegrityError" ELSE "none"

\* line 53: `except sqlite3.IntegrityError: pass`
SaveJobCaught == {"IntegrityError"}

\* an is_new_job that finds every link new
IsNewJobAlways(rows, link) == TRUE
\* lines 30-37
IsNewJob(rows, link) == ~ \E i \in 1..Len(rows) : rows[i].link = link

\* the table after an INSERT that takes no notice of the UNIQUE constraint
InsertAlways(rows, job, now) == Append(rows, Row(rows, job, now))
\* lines 40-56: the table after save_job; IntegrityError is passed over
SaveJobRows(rows, job, now) ==
    IF InsertError(rows, job) = "none" THEN Append(rows, Row(rows, job, now)) ELSE rows

\* lines 45-56: save_job lets the INSERT's exception through
SaveJobRaises(rows, job) == InsertError(rows, job) \notin SaveJobCaught \cup {"none"}

\* lines 12-27: CREATE TABLE IF NOT EXISTS leaves an existing table alone
InitDb ==
    /\ db' = db
    /\ call' = [op |-> "init_db"]
    /\ UNCHANGED <<scrapeVars, layerVars, mainVars>>

\* lines 40-56
SaveJob ==
    /\ Len(db) < MaxRows
    /\ \E job \in ScrapedJobs, now \in Days :
         /\ db' = SaveJobRows(db, job, now)
         /\ call' = [op |-> "save_job", job |-> job,
                     raised |-> SaveJobRaises(db, job)]
    /\ UNCHANGED <<scrapeVars, layerVars, mainVars>>

\* lines 30-37
IsNewJobCall ==
    /\ \E job \in ScrapedJobs :
         call' = [op |-> "is_new_job", link |-> job.link,
                  ret |-> IsNewJob(db, job.link)]
    /\ UNCHANGED <<db, scrapeVars, layerVars, mainVars>>

\* jobs.db right after init_db has created the table
InitDatabase ==
    /\ ScrapeIdle
    /\ LayerIdle
    /\ MainIdle
    /\ db = <<>>
    /\ call = [op |-> "init_db"]

NextDb ==
    \/ InitDb
    \/ SaveJob
    \/ IsNewJobCall

SpecDb == InitDatabase /\ [][NextDb]_vars

-----------------------------------------------------------------------------
(* filter.py, notifier.py *)

\* filter.py lines 6-30, after keyword.lower()
Keywords ==
    { "ai", "artificial intelligence", "machine learning", "ml", "deep learning",
      "data", "data science", "data engineer", "data analyst", "sde",
      "software engineer", "software developer", "software development",
      "backend", "backend engineer", "frontend", "frontend engineer",
      "full stack", "fullstack", "nlp", "computer vision", "genai", "llm" }

\* filter.py lines 33-39
IsRelevant(title) == \E kw \in Keywords : Contains(title, kw)

\* what requests.post can do: answer with a status, or raise one of the
\* exceptions of requests.exceptions (all derive from RequestException)
Deliveries ==
    { [status |-> 200, exc |-> "none"], [status |-> 403, exc |-> "none"],
      [status |-> 0, exc |-> "Timeout"], [status |-> 0, exc |-> "ConnectionError"] }

\* notifier.py line 51: the classes `except RequestException` catches
RequestExceptions == { "RequestException", "Timeout", "ConnectionError", "HTTPError" }

\* send_alert with no except clause
SendAlertUncaught(hasCreds, d) ==
    IF ~hasCreds THEN "skipped"
    ELSE IF d.exc /= "none" THEN "raise"
    ELSE IF d.status = 200 THEN "sent" ELSE "failed"
\* notifier.py lines 20-52: how send_alert ends when the POST does d:
\* "skipped" (no credentials, line 28), "sent" (line 48), "failed" (line
\* 50), "network_error" (line 52), all four by returning; or "raise"
SendAlertResult(hasCreds, d) ==
    IF ~hasCreds THEN "skipped"
    ELSE IF d.exc \in RequestExceptions THEN "network_error"
    ELSE IF d.exc /= "none" THEN "raise"
    ELSE IF d.status = 200 THEN "sent" ELSE "failed"

-----------------------------------------------------------------------------
(* main.py *)

\* what scrape_all can return to main
ScrapedLists == SeqsUpTo(ScrapedJobs, MaxScraped)

\* the job main's loop is at
CurJob == relevant[pos]

\* lines 22-33: init_db(), scrape_all(), the keyword filter.  The process
\* reads its credentials from the environment when notifier is imported.
\* scrape_all raises when an extractor does, and main with it.
MainStart ==
    /\ mpc = "idle"
    /\ run < MaxRuns
    /\ run' = run + 1
    /\ creds' \in BOOLEAN
    /\ \/ /\ mpc' = "raised"
          /\ UNCHANGED <<all_jobs, relevant>>
       \/ \E scraped \in ScrapedLists :
            /\ all_jobs' = scraped
            /\ relevant' = SelectSeq(scraped, LAMBDA j : IsRelevant(j.title))
            /\ mpc' = "loop"
    /\ pos' = 1
    /\ new_count' = 0
    /\ UNCHANGED <<pc, invoked, returned, jobs, result, resp, idx, trace, items,
                   layerVars, dbVars, alerts, saves>>

\* lines 34-39: the next job of the loop, up to `if is_new_job(link)`
MainCheck ==
    /\ mpc = "loop"
    /\ pos <= Len(relevant)
    /\ LET link == Get(CurJob, "link", <<>>)
       IN  IF Truthy(link) /\ IsNewJob(db, link)
             THEN mpc' = "save" /\ pos' = pos
             ELSE mpc' = "loop" /\ pos' = pos + 1
    /\ UNCHANGED <<scrapeVars, layerVars, dbVars, run, creds, relevant, new_count,
                   alerts, saves>>

\* lines 40-45
MainSave ==
    /\ mpc = "save"
    /\ db' = SaveJobRows(db, CurJob, run)
    /\ saves' = Append(saves, [run |-> run, link |-> CurJob.link])
    /\ mpc' = IF SaveJobRaises(db, CurJob) THEN "raised" ELSE "alert"
    /\ UNCHANGED <<scrapeVars, layerVars, call, run, creds, relevant, pos, new_count,
                   alerts>>

\* lines 46-52
MainAlert ==
    /\ mpc = "alert"
    /\ \E d \in Deliveries :
         LET outcome == SendAlertResult(creds, d)
         IN  /\ alerts' = Append(alerts, [run |-> run, link |-> CurJob.link,
                                          title |-> CurJob.title, outcome |-> outcome])
             /\ IF outcome = "raise"
                  THEN mpc' = "raised" /\ UNCHANGED <<pos, new_count>>
                  ELSE mpc' = "loop" /\ pos' = pos + 1 /\ new_count' = new_count + 1
    /\ UNCHANGED <<scrapeVars, layerVars, dbVars, run, creds, relevant, saves>>

\* lines 54-57: the final summary
MainSummary ==
    /\ mpc = "loop"
    /\ pos > Len(relevant)
    /\ mpc' = "summary"
    /\ UNCHANGED <<scrapeVars, layerVars, dbVars, run, creds, relevant, pos,
                   new_count, alerts, saves>>

\* lines 60-61: the process ends, after the summary or with a traceback;
\* jobs.db stays
MainExit ==
    /\ mpc \in {"summary", "raised"}
    /\ mpc' = "idle"
    /\ all_jobs' = <<>>
    /\ relevant' = <<>>
    /\ pos' = 1
    /\ new_count' = 0
    /\ creds' = FALSE
    /\ UNCHANGED <<pc, invoked, returned, jobs, result, resp, idx, trace, items,
                   layerVars, dbVars, run, alerts, saves>>

InitMain ==
    /\ ScrapeIdle
    /\ LayerIdle
    /\ DbIdle
    /\ MainIdle

\* the steps of a running process
MainRun ==
    \/ MainCheck
    \/ MainSave
    \/ MainAlert
    \/ MainSummary

NextMain ==
    \/ MainStart
    \/ MainCheck
    \/ MainSave
    \/ MainAlert
    \/ MainSummary
    \/ MainExit

SpecMain == InitMain /\ [][NextMain]_vars

\* a started process runs on until it ends
SpecMainLive == SpecMain /\ WF_vars(MainRun)

-----------------------------------------------------------------------------
(* Properties *)

\* an extractor has just returned `result` to scrape_all
AtReturn == pc = "ret"

\* the extractor that is running or has just returned
Cur == invoked[Len(invoked)]

NoDupLinks(js) ==
    \A i, k \in 1..Len(js) : i /= k => js[i].link /= js[k].link

Hosts == { "careers.google.com", "jobs.careers.microsoft.com", "www.zomato.com",
           "careers.swiggy.com", "x.com" }

\* scheme, host, and then nothing or a path that starts with "/"
IsAbsolute(l) ==
    /\ Len(l) >= 2
    /\ l[1] \in {"https://", "http://"}
    /\ l[2] \in Hosts
    /\ (Len(l) > 2 => l[3] = "/")

\* attempts of a cascade that is run to its end without any record
FullCascade(e) == CASE e = "Google" -> 2
                    [] e = "Microsoft" -> 3
                    [] e = "Zomato" -> 6
                    [] e = "Swiggy" -> 6

\* C1: neither the list an extractor returns nor the list scrape_all
\* returns holds two records with the same link.
C1_NoDuplicateLinks ==
    /\ AtReturn => NoDupLinks(result)
    /\ pc = "done" => NoDupLinks(all_jobs)

\* C2: every record an extractor returns has a non-empty title and a
\* non-empty link.
C2_OnlyValidRecords ==
    AtReturn => \A i \in 1..Len(result) : Valid(result[i])

\* C3: every record an extractor returns has an absolute link: scheme,
\* host, and a path resolved against the base URL.
C3_AbsoluteLinks ==
    AtReturn => \A i \in 1..Len(result) : IsAbsolute(result[i].link)

\* C4: once an attempt (layer or API endpoint) has yielded a valid record,
\* the extractor makes no later attempt.
C4_ShortCircuit ==
    AtReturn => \A i, k \in 1..Len(trace) :
                  i < k => NumValid(trace[i].recs) = 0

\* C5: an attempt without a valid record does not end the cascade, and the
\* extractor returns the valid records of the first attempt that has any,
\* deduplicated.
C5_Fallthrough ==
    AtReturn =>
      LET good == { i \in 1..Len(trace) : NumValid(trace[i].recs) > 0 }
      IN  IF good = {}
            THEN \/ Len(trace) = FullCascade(Cur)
                 \/ resp.status = TransportError
            ELSE LET k == CHOOSE i \in good : \A m \in good : i <= m
                 IN  result = Dedup(SelectSeq(trace[k].recs, Valid))

\* C6: the records an extractor returns come from a single attempt.
C6_NoMerging ==
    AtReturn => Cardinality({ i \in 1..Len(trace) : trace[i].recs /= <<>> }) <= 1

\* C7: no extractor raises into scrape_all, and an extractor that found
\* nothing has gone through all its API endpoints and on to its page.
C7_NoExceptionEscapes ==
    /\ pc /= "raised"
    /\ (AtReturn /\ result = <<>> /\ Cur /= "Google")
          => Len(trace) > (IF Cur = "Microsoft" THEN 2 ELSE 3)

\* C8: a response whose status is not 200 contributes no record.
C8_Non200YieldsNothing ==
    AtReturn => \A i \in 1..Len(trace) : ~trace[i].non200

\* C9: scrape_all ends only after it has called Google, Microsoft, Zomato
\* and Swiggy once each in this order, with the concatenation of what they
\* returned.
C9_AllFourInOrder ==
    /\ \A i \in 1..Len(invoked) : invoked[i] = Extractors[i]
    /\ pc \in {"done", "raised"} =>
          /\ invoked = Extractors
          /\ Len(returned) = Len(Extractors)
          /\ all_jobs = Flatten(returned)

\* C10: every record an extractor returns has a non-empty location.
C10_LocationNeverEmpty ==
    AtReturn => \A i \in 1..Len(result) : result[i].location /= <<>>

\* the API layer has run on scenario A's response
ScenarioARan ==
    /\ mock.layer = "api"
    /\ mock.done
    /\ mock.input.status = 200
    /\ mock.input.ctype = <<"application/json">>
    /\ mock.input.body = ScenarioABody

\* C11: on scenario A's response the API layer gives exactly one record,
\* with title "Data Engineer", the nested location name "Bengaluru" as
\* location and the absolute_url as link.
C11_ScenarioA ==
    ScenarioARan =>
        /\ Len(emitted) = 1
        /\ emitted[1].title = <<"Data Engineer">>
        /\ emitted[1].link = ScenarioALink
        /\ emitted[1].location = <<"Bengaluru">>

OneRowPerLink ==
    \A i, k \in 1..Len(db) : i /= k => db[i].link /= db[k].link

IsNewJobExact ==
    call.op = "is_new_job" =>
        (call.ret <=> ~ \E i \in 1..Len(db) : db[i].link = call.link)

\* a save_job call whose link is stored already
SaveOfStoredLink ==
    /\ call'.op = "save_job"
    /\ \E i \in 1..Len(db) : db[i].link = call'.job.link

\* C12: the jobs table never holds two rows with the same link; save_job
\* with a stored link raises nothing and leaves the table as it is; and
\* is_new_job(link) is true exactly when no row has that link.
C12_UniqueLinkIdempotent ==
    /\ [](OneRowPerLink /\ IsNewJobExact)
    /\ [][SaveOfStoredLink => (db' = db /\ ~call'.raised)]_vars

\* save_job has been called with a stored link and another title, and the
\* row stored first is still the only one with that link
C12_Witness ==
    /\ call.op = "save_job"
    /\ ~call.raised
    /\ \E i \in 1..Len(db) :
         /\ db[i].link = call.job.link
         /\ db[i].title /= call.job.title

\* the outcomes of send_alert in which nothing was delivered
DeliveryFailures == {"skipped", "failed", "network_error"}

\* send_alert has never ended by raising
NoAlertRaised == \A i \in 1..Len(alerts) : alerts[i].outcome /= "raise"

\* a step in which send_alert is called and does not deliver
FailedAlertStep ==
    /\ mpc = "alert"
    /\ Len(alerts') = Len(alerts) + 1
    /\ alerts'[Len(alerts')].outcome /= "sent"

\* main is inside its job loop
InLoop == mpc \in {"loop", "save", "alert"}

\* C13: send_alert never raises when delivery fails (no credentials, a
\* non-200 answer, a timeout or another network error); after a failed
\* delivery main is back in its loop at the next relevant job; and a run
\* that has entered the loop reaches the final summary.
C13_AlertFailureIsNotFatal ==
    /\ []NoAlertRaised
    /\ [][FailedAlertStep =>
            /\ alerts'[Len(alerts')].outcome \in DeliveryFailures
            /\ mpc' = "loop"
            /\ pos' = pos + 1]_vars
    /\ (InLoop ~> (mpc = "summary" /\ pos = Len(relevant) + 1))

\* main is at its summary after a run in which the alert for the first
\* relevant job failed on the network and a later job was alerted too
C13_Witness ==
    /\ mpc = "summary"
    /\ \E i, k \in 1..Len(alerts) :
         /\ i < k
         /\ alerts[i].run = run
         /\ alerts[k].run = run
         /\ alerts[i].outcome = "network_error"

AlertOncePerLink ==
    \A i, k \in 1..Len(alerts) : i /= k => alerts[i].link /= alerts[k].link

AlertOnlyRelevantWithLink ==
    \A i \in 1..Len(alerts) : IsRelevant(alerts[i].title) /\ alerts[i].link /= <<>>

\* save_job was called for the alert's link earlier in the same run
AlertAfterSave ==
    \A i \in 1..Len(alerts) : \E k \in 1..Len(saves) :
        saves[k].run = alerts[i].run /\ saves[k].link = alerts[i].link

AlertedIsStored ==
    \A i \in 1..Len(alerts) : alerts[i].link \in Links(db)

\* C15: over all runs on one jobs.db, send_alert is called at most once
\* for a link, only for a record with a relevant title and a non-empty
\* link, and only after save_job was called for the link in the same run;
\* the link is stored whether or not the alert was delivered.
C15_AlertOncePerNewLink ==
    /\ AlertOncePerLink
    /\ AlertOnlyRelevantWithLink
    /\ AlertAfterSave
    /\ AlertedIsStored

\* a later run has gone through a list that holds twice the link whose
\* alert failed in an earlier run, and the link was not alerted again
C15_Witness ==
    /\ mpc = "summary"
    /\ \E i \in 1..Len(alerts) :
         /\ alerts[i].run < run
         /\ alerts[i].outcome \in DeliveryFailures
         /\ Len(relevant) = 2
         /\ relevant[1].link = alerts[i].link
         /\ relevant[2].link = alerts[i].link

\* the script-blob layer has run
BlobRan == mock.layer = "blob" /\ mock.done

\* C14: the script-blob layer gives at most 30 records for Google and at
\* most 20 for Microsoft, Zomato and Swiggy, whatever the number of inline
\* scripts and of matches in each.
C14_BlobCap ==
    BlobRan => Len(emitted) <= (IF mock.extractor = "Google" THEN 30 ELSE 20)

\* a Google page with two scripts of more than 30 matches each has given
\* exactly 30 records
C14_Witness ==
    /\ BlobRan
    /\ mock.extractor = "Google"
    /\ Len(mock.input) = 2
    /\ \A i \in 1..2 : mock.input[i].hasKey /\ Len(mock.input[i].pairs) > 30
    /\ Len(emitted) = 30


====
